---------------------------- MODULE Spec2Model ----------------------------
(***************************************************************************)
(* Fire2012Rainbow (src/Fire2012Rainbow.h): the per-frame fire simulation   *)
(* of the LED lamp.  One call walks the columns of the matrix; for each     *)
(* column it cools every cell, lets the heat drift up, possibly ignites a   *)
(* spark in row 0 or 1, and renders the column into the leds array.         *)
(*                                                                         *)
(* Every loop iteration of the function is one action.  The FastLED         *)
(* primitives the function calls (qsub8, qadd8, scale8, random8,            *)
(* ColorFromPalette) are operators that compute what the library computes   *)
(* on 8-bit values; a call of random8 consumes one raw byte of the random   *)
(* source, which is an input of the action.                                 *)
(***************************************************************************)
EXTENDS Integers, Sequences, FiniteSets

(***************************************************************************)
(* Bounds of the model.                                                     *)
(***************************************************************************)
\* a matrix of the small configurations has at most MaxCells cells
MaxCells == 6
\* a call starts only while fewer than MaxPasses columns have been processed
MaxPasses == 2

(***************************************************************************)
(* Program constants.                                                       *)
(***************************************************************************)
COOLINGRainbow == 150
SPARKINGRainbow == 60

VARIABLES
    MATRIX_WIDTH,   \* columns of the matrix (fixed at construction)
    MATRIX_HEIGHT,  \* rows of the matrix (fixed at construction)
    COOLING,        \* the cooling tunable in force
    SPARKING,       \* the sparking tunable in force
    rng,            \* raw bytes the random source can return
    heat,           \* static byte heat[MATRIX_WIDTH][MATRIX_HEIGHT]
    leds,           \* the frame buffer, indexed by XY(x, y)
    pc,             \* position inside Fire2012Rainbow, "idle" between calls
    x,              \* column loop variable
    n,              \* row loop variable of the running loop (i, k or j)
    frames,         \* calls that have returned
    result,         \* value returned by the last call
    heat0,          \* history: the heat grid when the running call started
    cooled,         \* history: column x as it stood when its Diffuse loop started
    access,         \* history: row indices the Diffuse loop of column x has read and written
    last,           \* history: the last write to a heat cell
    ignited,        \* history: sparks added per column in the running call
    written         \* history: writes per frame-buffer index in the running call

vars == << MATRIX_WIDTH, MATRIX_HEIGHT, COOLING, SPARKING, rng, heat, leds, pc,
           x, n, frames, result, heat0, cooled, access, last, ignited, written >>

config == << MATRIX_WIDTH, MATRIX_HEIGHT, COOLING, SPARKING, rng >>

Byte == 0 .. 255

Cols == 0 .. (MATRIX_WIDTH - 1)

Rows == 0 .. (MATRIX_HEIGHT - 1)

Max(a, b) == IF a >= b THEN a ELSE b

(***************************************************************************)
(* 8-bit primitives.                                                        *)
(***************************************************************************)
\* conversion of an int to uint8_t
ToByte(v) == v % 256

\* fault variant: a subtraction that wraps around below 0
qsub8_wrapping(a, b) == ToByte(a - b)

\* saturating subtraction
qsub8(a, b) == IF a - b < 0 THEN 0 ELSE a - b

\* fault variant: an addition that wraps around above 255
qadd8_wrapping(a, b) == ToByte(a + b)

\* saturating addition
qadd8(a, b) == IF a + b > 255 THEN 255 ELSE a + b

\* scale8(i, scale): i * (1 + scale) / 256
scale8(v, scale) == (v * (1 + scale)) \div 256

\* random8(): the raw byte itself
random8(r) == r

\* random8(lim): the raw byte scaled into [0, lim)
random8_lim(r, lim) == (r * ToByte(lim)) \div 256

\* random8(min, lim): both arguments are uint8_t, and so is lim - min
random8_range(r, min, lim) ==
    ToByte(random8_lim(r, ToByte(ToByte(lim) - ToByte(min))) + ToByte(min))

\* the raw bytes of the random source used by the model: the least byte,
\* the greatest byte, and the greatest byte of the lower half
RandomBytes == { 0, 127, 255 }

(***************************************************************************)
(* Palette and pixel addressing.                                            *)
(***************************************************************************)
Black == << 0, 0, 0 >>
Maroon == << 128, 0, 0 >>
DarkRed == << 139, 0, 0 >>
Red == << 255, 0, 0 >>
Orange == << 255, 165, 0 >>
White == << 255, 255, 255 >>

\* the 16 entries of LavaColors_p (the table lists 15, the last is zero)
LavaColors_p ==
    << Black, Maroon, Black, Maroon,
       DarkRed, Maroon, DarkRed,
       DarkRed, DarkRed, Red, Orange,
       White, Orange, Red, DarkRed, Black >>

\* ColorFromPalette(pal, index) with the default brightness 255 and
\* LINEARBLEND: entry index / 16 blended with its successor by index % 16
ColorFromPalette(pal, index) ==
    LET hi4 == index \div 16
        lo4 == index % 16
        e1  == pal[hi4 + 1]
        e2  == IF hi4 = 15 THEN pal[1] ELSE pal[hi4 + 2]
        f2  == lo4 * 16
        f1  == 255 - f2
    IN  IF lo4 = 0
        THEN e1
        ELSE [ c \in 1 .. 3 |-> ToByte(scale8(e1[c], f1) + scale8(e2[c], f2)) ]

\* XY(x, y): column-major offset of pixel (x, y) in the frame buffer
XY(col, row) == col * MATRIX_HEIGHT + row

\* upper limit handed to random8 in the Cool loop
CoolLimit == ((COOLING * 10) \div MATRIX_HEIGHT) + 2

NoAccess == [ rd |-> {}, wr |-> {} ]

\* fault variant: the weights of the two rows below exchanged
DiffuseValue_swapped(col, k) == (col[k - 1] + col[k - 1] + col[k - 2]) \div 3

\* the value the Diffuse loop stores in row k of a column
DiffuseValue(col, k) == (col[k - 1] + col[k - 2] + col[k - 2]) \div 3

\* fault variant: the comparison admits the threshold itself
SparkTaken_orEqual(r) == random8(r) <= SPARKING

\* the test that guards a spark: random8() < SPARKING
SparkTaken(r) == random8(r) < SPARKING

\* fault variant: the spark may land one row too high
SparkRow_three(r) == random8_lim(r, 3)

\* the row a spark lands in: int y = random8(2)
SparkRow(r) == random8_lim(r, 2)

\* fault variant: the row is not flipped
PixelOf_unflipped(col, j) == XY(col, j)

\* the frame-buffer index Render writes for row j of column col
PixelOf(col, j) == XY(col, (MATRIX_HEIGHT - 1) - j)

NoWrite == [ phase |-> "none", col |-> 0, row |-> 0, old |-> 0, raw |-> 0, draw |-> 0 ]

(***************************************************************************)
(* Initial states.                                                          *)
(***************************************************************************)
InitWith(W, H, cooling, sparking, bytes, grid) ==
    /\ MATRIX_WIDTH = W
    /\ MATRIX_HEIGHT = H
    /\ COOLING = cooling
    /\ SPARKING = sparking
    /\ rng = bytes
    /\ heat = grid
    /\ leds = [ p \in 0 .. (W * H - 1) |-> Black ]
    /\ pc = "idle"
    /\ x = 0
    /\ n = 0
    /\ frames = 0
    /\ result = 0
    /\ heat0 = grid
    /\ cooled = << >>
    /\ access = NoAccess
    /\ last = NoWrite
    /\ ignited = [ c \in 0 .. (W - 1) |-> 0 ]
    /\ written = [ p \in 0 .. (W * H - 1) |-> 0 ]

\* the small configurations: WIDTH >= 1, HEIGHT >= 3
Configs == { c \in (1 .. MaxCells) \X (3 .. MaxCells) : c[1] * c[2] <= MaxCells }

ZeroGrid(W, H) == [ c \in 0 .. (W - 1) |-> [ r \in 0 .. (H - 1) |-> 0 ] ]

\* the program as built: zero-initialised static grid, the tunables of the source
Init ==
    \E c \in Configs :
        LET W == c[1]
            H == c[2]
        IN  InitWith(W, H, COOLINGRainbow, SPARKINGRainbow, RandomBytes, ZeroGrid(W, H))

\* heat values of the initial grids that are not the zero grid
HeatSamples == { 0, 200 }

\* the initial grids of a fire that was lit: rows 0 and 1 hold any of the
\* sample values, the rows above are cold
Grids(W, H) ==
    { grid \in [ 0 .. (W - 1) -> [ 0 .. (H - 1) -> HeatSamples ] ] :
        \A c \in 0 .. (W - 1) : \A r \in 2 .. (H - 1) : grid[c][r] = 0 }

\* SPARKING = 0, any initial grid
InitNoSpark ==
    \E c \in Configs :
        LET W == c[1]
            H == c[2]
        IN  \E grid \in Grids(W, H) :
                InitWith(W, H, COOLINGRainbow, 0, RandomBytes, grid)

\* SPARKING = 255, zero grid
InitAllSpark ==
    \E c \in Configs :
        LET W == c[1]
            H == c[2]
        IN  InitWith(W, H, COOLINGRainbow, 255, RandomBytes, ZeroGrid(W, H))

\* grid 10 x 10, zero grid, SPARKING = 255, COOLING = 0; the random source
\* is a stub that returns one fixed byte
InitTenByTen ==
    \E b \in RandomBytes :
        InitWith(10, 10, 0, 255, { b }, ZeroGrid(10, 10))

\* grid 1 x 3 with heat[0] = [200, 100, 50], COOLING = 0
InitOneByThree ==
    InitWith(1, 3, 0, SPARKINGRainbow, RandomBytes,
             [ c \in { 0 } |-> [ r \in 0 .. 2 |-> IF r = 0 THEN 200 ELSE IF r = 1 THEN 100 ELSE 50 ] ])

(***************************************************************************)
(* The function body.                                                       *)
(***************************************************************************)
\* entry of Fire2012Rainbow: for (x = 0; ...), first Cool loop starts
Call ==
    /\ pc = "idle"
    /\ frames * MATRIX_WIDTH < MaxPasses
    /\ pc' = "cool"
    /\ x' = 0
    /\ n' = 0
    /\ heat0' = heat
    /\ ignited' = [ c \in Cols |-> 0 ]
    /\ written' = [ p \in DOMAIN written |-> 0 ]
    /\ last' = NoWrite
    /\ cooled' = << >>
    /\ access' = NoAccess
    /\ UNCHANGED << config, heat, leds, frames, result >>

\* Step 1, one iteration: heat[x][i] = qsub8(heat[x][i], random8(0, limit))
CoolCell ==
    /\ pc = "cool"
    /\ \E r \in rng :
        LET d == random8_range(r, 0, CoolLimit)
            v == qsub8(heat[x][n], d)
        IN  /\ heat' = [ heat EXCEPT ![x][n] = v ]
            /\ last' = [ phase |-> "cool", col |-> x, row |-> n,
                         old |-> heat[x][n], raw |-> v, draw |-> d ]
            /\ IF n + 1 < MATRIX_HEIGHT
               THEN /\ n' = n + 1
                    /\ UNCHANGED << pc, cooled >>
               ELSE /\ n' = MATRIX_HEIGHT - 1
                    /\ pc' = "diffuse"
                    /\ cooled' = heat'[x]
    /\ UNCHANGED << config, leds, x, frames, result, heat0, access, ignited, written >>

\* Step 2, one iteration: heat[x][k] = (heat[x][k-1] + heat[x][k-2] + heat[x][k-2]) / 3
DiffuseCell ==
    /\ pc = "diffuse"
    /\ n >= 2
    /\ LET v == DiffuseValue(heat[x], n)
       IN  /\ heat' = [ heat EXCEPT ![x][n] = ToByte(v) ]
           /\ last' = [ phase |-> "diffuse", col |-> x, row |-> n,
                        old |-> heat[x][n], raw |-> v, draw |-> 0 ]
    /\ access' = [ rd |-> access.rd \cup { n - 1, n - 2 }, wr |-> access.wr \cup { n } ]
    /\ n' = n - 1
    /\ pc' = IF n - 1 >= 2 THEN "diffuse" ELSE "ignite"
    /\ UNCHANGED << config, leds, x, frames, result, heat0, cooled, ignited, written >>

\* fault variant: the spark is always stored in column 0
Ignite_FirstColumn ==
    /\ pc = "ignite"
    /\ \E r1 \in rng, r2 \in rng, r3 \in rng :
        IF SparkTaken(r1)
        THEN LET y == SparkRow(r2)
                 d == random8_range(r3, 160, 255)
                 v == qadd8(heat[0][y], d)
             IN  /\ heat' = [ heat EXCEPT ![0][y] = v ]
                 /\ last' = [ phase |-> "ignite", col |-> 0, row |-> y,
                              old |-> heat[0][y], raw |-> v, draw |-> d ]
                 /\ ignited' = [ ignited EXCEPT ![x] = @ + 1 ]
        ELSE /\ last' = NoWrite
             /\ UNCHANGED << heat, ignited >>
    /\ pc' = "render"
    /\ n' = 0
    /\ cooled' = << >>
    /\ access' = NoAccess
    /\ UNCHANGED << config, leds, x, frames, result, heat0, written >>

\* Step 3: if (random8() < SPARKING) { y = random8(2); heat[x][y] = qadd8(heat[x][y], random8(160, 255)); }
Ignite ==
    /\ pc = "ignite"
    /\ \E r1 \in rng, r2 \in rng, r3 \in rng :
        IF SparkTaken(r1)
        THEN LET y == SparkRow(r2)
                 d == random8_range(r3, 160, 255)
                 v == qadd8(heat[x][y], d)
             IN  /\ heat' = [ heat EXCEPT ![x][y] = v ]
                 /\ last' = [ phase |-> "ignite", col |-> x, row |-> y,
                              old |-> heat[x][y], raw |-> v, draw |-> d ]
                 /\ ignited' = [ ignited EXCEPT ![x] = @ + 1 ]
        ELSE /\ last' = NoWrite
             /\ UNCHANGED << heat, ignited >>
    /\ pc' = "render"
    /\ n' = 0
    /\ cooled' = << >>
    /\ access' = NoAccess
    /\ UNCHANGED << config, leds, x, frames, result, heat0, written >>

\* Step 4, one iteration: leds[XY(x, (H-1) - j)] = ColorFromPalette(LavaColors_p, scale8(heat[x][j], 160))
RenderCell ==
    /\ pc = "render"
    /\ LET colorindex == scale8(heat[x][n], 160)
           p == PixelOf(x, n)
       IN  /\ leds' = [ leds EXCEPT ![p] = ColorFromPalette(LavaColors_p, colorindex) ]
           /\ written' = [ written EXCEPT ![p] = @ + 1 ]
    /\ IF n + 1 < MATRIX_HEIGHT
       THEN /\ n' = n + 1
            /\ pc' = pc
       ELSE /\ n' = 0
            /\ pc' = "next"
    /\ UNCHANGED << config, heat, x, frames, result, heat0, cooled, access, last, ignited >>

\* x++ of the column loop with a further column to process
NextColumn ==
    /\ pc = "next"
    /\ x + 1 < MATRIX_WIDTH
    /\ x' = x + 1
    /\ n' = 0
    /\ pc' = "cool"
    /\ last' = NoWrite
    /\ UNCHANGED << config, heat, leds, frames, result, heat0, cooled, access, ignited, written >>

\* the column loop ends: return 15
Return ==
    /\ pc = "next"
    /\ ~ (x + 1 < MATRIX_WIDTH)
    /\ result' = 15
    /\ frames' = frames + 1
    /\ pc' = "idle"
    /\ x' = 0
    /\ n' = 0
    /\ last' = NoWrite
    /\ UNCHANGED << config, heat, leds, heat0, cooled, access, ignited, written >>

Next ==
    \/ Call
    \/ CoolCell
    \/ DiffuseCell
    \/ Ignite
    \/ RenderCell
    \/ NextColumn
    \/ Return

Spec == Init /\ [][Next]_vars

SpecNoSpark == InitNoSpark /\ [][Next]_vars

SpecAllSpark == InitAllSpark /\ [][Next]_vars

\* the two end-to-end scenarios
SpecEndToEnd == (InitTenByTen \/ InitOneByThree) /\ [][Next]_vars

(***************************************************************************)
(* Properties of the program as built (Spec).                               *)
(***************************************************************************)
Min(a, b) == IF a <= b THEN a ELSE b

\* a call has returned and no other is running
Returned == pc = "idle" /\ frames >= 1

\* C1: from the zero grid, every cell always holds a value in 0 .. 255, and
\* no write wraps: a Cool write is the old value less the draw clamped at 0,
\* an Ignite write is the old value plus the draw clamped at 255, and the
\* quotient a Diffuse write stores fits a byte unchanged.
C1_Saturation ==
    /\ \A c \in Cols : \A r \in Rows : heat[c][r] \in Byte
    /\ last.phase = "cool" =>
          /\ last.raw = Max(0, last.old - last.draw)
          /\ heat[last.col][last.row] = last.raw
    /\ last.phase = "ignite" =>
          /\ last.raw = Min(255, last.old + last.draw)
          /\ heat[last.col][last.row] = last.raw
    /\ last.phase = "diffuse" =>
          /\ last.raw \in Byte
          /\ heat[last.col][last.row] = last.raw

\* a spark has just been clamped at 255
C1_Witness ==
    /\ last.phase = "ignite"
    /\ last.old + last.draw > 255
    /\ heat[last.col][last.row] = 255

\* C7: a Cool write leaves max(0, v - d) in the cell, d being the draw with
\* 0 <= d < ((COOLING * 10) / HEIGHT) + 2, so it never increases the cell;
\* when the Cool loop of a column ends, every cell of the column is such a
\* value of what the cell held when the call started.
C7_Cool ==
    /\ last.phase = "cool" =>
          /\ last.draw >= 0
          /\ last.draw < CoolLimit
          /\ heat[last.col][last.row] = Max(0, last.old - last.draw)
          /\ heat[last.col][last.row] <= last.old
    /\ (pc = "diffuse" /\ access = NoAccess) =>
          \A i \in Rows :
              /\ heat[x][i] <= heat0[x][i]
              /\ \E d \in 0 .. (CoolLimit - 1) : heat[x][i] = Max(0, heat0[x][i] - d)

\* a positive draw has cooled a hot cell, with a limit above 255
C7_Witness ==
    /\ CoolLimit > 255
    /\ last.phase = "cool"
    /\ last.draw > 0
    /\ heat[last.col][last.row] > 0
    /\ heat[last.col][last.row] < last.old

\* C8: when the Diffuse loop of a column ends, row k >= 2 holds
\* (c[k-1] + 2 * c[k-2]) / 3 of the column c the loop started from, rows 0
\* and 1 are as in c, rows 2 .. HEIGHT-1 are the rows written, and the loop
\* never uses a row outside 0 .. HEIGHT-1 (with HEIGHT = 3 it writes row 2 alone).
C8_Diffuse ==
    /\ access.rd \subseteq Rows
    /\ access.wr \subseteq Rows
    /\ pc = "ignite" =>
          /\ \A k \in 2 .. (MATRIX_HEIGHT - 1) :
                heat[x][k] = (cooled[k - 1] + 2 * cooled[k - 2]) \div 3
          /\ heat[x][0] = cooled[0]
          /\ heat[x][1] = cooled[1]
          /\ access.wr = 2 .. (MATRIX_HEIGHT - 1)
          /\ access.rd = 0 .. (MATRIX_HEIGHT - 2)
          /\ MATRIX_HEIGHT = 3 => access.wr = { 2 }

\* the Diffuse loop has ended and has moved heat of row 1 into rows 2 and 3,
\* row 3 having read row 2 as it stood before the loop
C8_Witness ==
    /\ pc = "ignite"
    /\ MATRIX_HEIGHT >= 4
    /\ cooled[1] > 0
    /\ cooled[2] = 0
    /\ heat[x][2] > 0
    /\ heat[x][3] = (2 * cooled[1]) \div 3
    /\ heat[x][3] > 0

\* C10: after n >= 1 calls from the zero grid every row k >= 2 * n is 0.
C10_Rise ==
    Returned => \A c \in Cols : \A k \in Rows : k >= 2 * frames => heat[c][k] = 0

\* two calls have returned, heat has reached row 3 and not row 4
C10_Witness ==
    /\ Returned
    /\ frames = 2
    /\ MATRIX_HEIGHT >= 5
    /\ heat[0][3] > 0
    /\ heat[0][4] = 0

InColumn == pc \in { "cool", "diffuse", "ignite", "render" }

\* the pixels of column c
PixelsOf(c) == [ r \in Rows |-> leds[XY(c, r)] ]

AllZero(grid) == \A c \in Cols : \A r \in Rows : grid[c][r] = 0

\* C2 as stated (SpecNoSpark): with SPARKING = 0 no spark is ever added, and
\* the fire goes out within a bounded number of frames whatever the draws;
\* a fire that is bound to go out cannot leave a call exactly as it entered
\* it, for the same draws would then keep it burning for ever.
C2_Extinction ==
    /\ \A c \in Cols : ignited[c] = 0
    /\ (Returned /\ ~ AllZero(heat0)) => heat # heat0

\* C2 as amended (SpecNoSpark): with SPARKING = 0 no spark is ever added;
\* during and after a call rows 0 and 1 are at most what they were when the
\* call started, and no cell exceeds the largest value its column had then.
C2_NoSpark ==
    /\ \A c \in Cols : ignited[c] = 0
    /\ last.phase # "ignite"
    /\ \A c \in Cols :
          /\ heat[c][0] <= heat0[c][0]
          /\ heat[c][1] <= heat0[c][1]
          /\ \A r \in Rows : \E s \in Rows : heat[c][r] <= heat0[c][s]

\* a call on a burning grid has returned and has left it exactly as it was
C2_Witness ==
    /\ Returned
    /\ SPARKING = 0
    /\ heat0[0][0] = 200
    /\ heat[0][2] > 0
    /\ heat = heat0

\* C3 as stated (SpecAllSpark): with SPARKING = 255 the Ignite step of every
\* column adds a spark to row 0 or row 1 of that column, whatever byte
\* random8() returns, so a call ignites every column exactly once.
C3_EveryColumn ==
    /\ (pc = "render" /\ n = 0) =>
          /\ ignited[x] = 1
          /\ last.phase = "ignite"
          /\ last.col = x
          /\ last.row \in { 0, 1 }
    /\ Returned => \A c \in Cols : ignited[c] = 1

\* the cells of column c other than row y
OtherRows(y) == Rows \ { y }

\* C5 as stated (SpecEndToEnd, the 10 x 10 scenario): after one call on the zero 10 x 10 grid with
\* SPARKING = 255 and COOLING = 0, every column has one of rows 0 and 1 in
\* 160 .. 254 and 0 elsewhere; the pixel of that cell has a palette index
\* other than 0 and is not black, every other pixel has index 0 and is black.
C5_TenByTen ==
    (Returned /\ MATRIX_WIDTH = 10) =>
        \A c \in Cols :
            \E y \in { 0, 1 } :
                /\ heat[c][y] \in 160 .. 254
                /\ scale8(heat[c][y], 160) # 0
                /\ leds[XY(c, (MATRIX_HEIGHT - 1) - y)] # Black
                /\ \A r \in OtherRows(y) :
                      /\ heat[c][r] = 0
                      /\ scale8(heat[c][r], 160) = 0
                      /\ leds[XY(c, (MATRIX_HEIGHT - 1) - r)] = Black

\* the 1 x 3 scenario
OneByThree == MATRIX_WIDTH = 1 /\ MATRIX_HEIGHT = 3

\* the first call of the 1 x 3 scenario has returned
FirstReturned == OneByThree /\ Returned /\ frames = 1

\* C6 as stated (SpecEndToEnd, the 1 x 3 scenario): one call on heat[0] = [200, 100, 50] with
\* COOLING = 0 leaves heat[0][2] = 66.
C6_SixtySix ==
    FirstReturned => heat[0][2] = 66

\* C6 as amended (SpecEndToEnd, the 1 x 3 scenario): the call leaves
\* heat[0][2] = (h1 + 2 * h0) / 3, h0 in {199, 200} and h1 in {99, 100} being
\* rows 0 and 1 after their Cool draws of 0 or 1: that is 165 or 166, and
\* (100 + 200 + 200) / 3 = 166 when neither row is cooled.
C6_Diffused ==
    /\ (OneByThree /\ frames = 0 /\ pc = "ignite") =>
          /\ cooled[0] \in { 199, 200 }
          /\ cooled[1] \in { 99, 100 }
          /\ heat[0][2] = (cooled[1] + 2 * cooled[0]) \div 3
          /\ (cooled[0] = 200 /\ cooled[1] = 100) => heat[0][2] = 166
    /\ FirstReturned => heat[0][2] \in { 165, 166 }

\* the first call has returned after cooling rows 0 and 1 by 1 each
C6_Witness ==
    /\ FirstReturned
    /\ heat0[0] = [ r \in 0 .. 2 |-> IF r = 0 THEN 200 ELSE IF r = 1 THEN 100 ELSE 50 ]
    /\ heat[0][2] = 165

=============================================================================
